---- MODULE Spec2Model ----
(***************************************************************************)
(* Model of src/relay/backend/contrib/ethosn/ethosn_api.cc: the Ethos-N    *)
(* translators (QnnConv2d, Concatenate, Split), the Tvm2Npu converters,    *)
(* the AsArray / AsConstant extractors and the three capability-query      *)
(* bindings.                                                               *)
(*                                                                         *)
(* Every entry point is a synchronous call, so the state is the record of  *)
(* the last call: which entry point ran, its argument, whether it returned *)
(* and what it produced.                                                   *)
(*                                                                         *)
(* Integers.  IntImm values are 64 bit and the descriptor slots are        *)
(* uint32_t, so the values that matter sit around 0 and around 2^32.  A    *)
(* number is the record [hi, lo] standing for hi * 2^32 + lo with lo a     *)
(* small (|lo| < 2^31) integer; comparison, the cast to uint32_t and the   *)
(* cast to int are exact on this representation.                           *)
(***************************************************************************)
EXTENDS Integers, Sequences, FiniteSets, TLC

VARIABLES op, arg, status, err, out, trace, ub, oracle, rv

vars == <<op, arg, status, err, out, trace, ub, oracle, rv>>

(***************************************************************************)
(* Bounds of the model.                                                    *)
(***************************************************************************)
\* longest IndexExpr array handed to a converter (AsArray rejects above 4)
MaxLen == 5
\* largest number of inputs of a concatenation
MaxInputs == 2
\* largest section count / cut index of a split
MaxSections == 3

(***************************************************************************)
(* Numbers: hi * 2^32 + lo.                                                *)
(***************************************************************************)
Num(h, l) == [hi |-> h, lo |-> l]

Small(x) == Num(0, x)

\* std::numeric_limits<uint32_t>::max() = 2^32 - 1
UINT32_MAX == Num(1, -1)

\* a > b on 64-bit integers
Gt(a, b) == a.hi > b.hi \/ (a.hi = b.hi /\ a.lo > b.lo)

\* static_cast<uint32_t>(a): a modulo 2^32, in 0 .. 2^32 - 1
ToUint32(a) == IF a.lo >= 0 THEN Num(0, a.lo) ELSE Num(1, a.lo)

\* conversion to int (32 bit, two's complement): a modulo 2^32, in -2^31 .. 2^31 - 1
ToInt32(a) == Num(0, a.lo)

\* a - b on 64-bit integers
Sub(a, b) == Num(a.hi - b.hi, a.lo - b.lo)

\* a + b, unbounded
Add(a, b) == Num(a.hi + b.hi, a.lo + b.lo)

(***************************************************************************)
(* EthosnError: a sequence of messages (ethosn_api.h).                     *)
(***************************************************************************)
NoError == <<>>

\* EthosnError(msg)
Error(msg) == <<msg>>

\* a += b
Combine(a, b) == a \o b

\* e1 += e2 += ... in order
RECURSIVE Flatten(_)
Flatten(es) == IF es = <<>> THEN NoError ELSE Combine(Head(es), Flatten(Tail(es)))

\* explicit operator bool
HasError(e) == e # <<>>

MsgConstant == "expected constant data"
MsgBothPadding == "both op and attr padding exist, must be either op/attr only or no padding"
MsgDilation == "dilation must = [1, 1]"
MsgPaddingFlat == "padding tuple size must be {1, 2, 4}"
MsgPaddingNested == "padding tuple size must = 4"
MsgStride == "stride size must = 2"
MsgFormat == "format must be {NCHW, NHWC, HWIO, HWIM}"
MsgBatch == "batch size must = 1"
MsgDtype == "dtype must be either uint8 or int32"
MsgDimensions == "dimensions must be <= 4"
MsgAxisSize == "axis size must be <= 4294967295"

Contains(e, msg) == \E i \in 1..Len(e) : e[i] = msg

(***************************************************************************)
(* Values of objects that are declared without an initialiser.  Reading    *)
(* one yields whatever the storage holds.                                  *)
(***************************************************************************)
Junk == {Small(1), Small(7)}

\* an enum object (sl::DataType, sl::DataFormat) holding that storage
JunkEnum(junk) == IF junk = Small(1) THEN "enum(1)" ELSE "enum(7)"

Ones4 == <<Small(1), Small(1), Small(1), Small(1)>>

Uninit4(junk) == <<junk, junk, junk, junk>>

\* sl::Padding(): all margins zero
Padding(top, bottom, left, right) ==
    [m_Top |-> top, m_Bottom |-> bottom, m_Left |-> left, m_Right |-> right]

ZeroPadding == Padding(Small(0), Small(0), Small(0), Small(0))

\* sl::Stride(x, y); sl::Stride() is (1, 1)
Stride(x, y) == [m_X |-> x, m_Y |-> y]

DefaultStride == Stride(Small(1), Small(1))

(***************************************************************************)
(* AsArray<IndexExpr, uint32_t>: copy at most 4 IntImm values into v.      *)
(***************************************************************************)
RECURSIVE AsArrayLoop(_, _, _)
AsArrayLoop(arr, v, i) ==
    IF i > Len(arr) THEN [err |-> NoError, v |-> v]
    ELSE IF Gt(arr[i], UINT32_MAX) THEN [err |-> Error(MsgAxisSize), v |-> v]
    ELSE AsArrayLoop(arr, [v EXCEPT ![i] = ToUint32(arr[i])], i + 1)

AsArray(arr, v) ==
    IF Len(arr) > 4 THEN [err |-> Error(MsgDimensions), v |-> v]
    ELSE AsArrayLoop(arr, v, 1)

(***************************************************************************)
(* AsConstant<T>: a constant is [const |-> TRUE, val |-> n], anything else *)
(* [const |-> FALSE]; on failure *out keeps what it held.                  *)
(***************************************************************************)
AsConstant(expr, held) ==
    IF ~expr.const THEN [err |-> Error(MsgConstant), v |-> held]
    ELSE [err |-> NoError, v |-> expr.val]

(***************************************************************************)
(* Tvm2Npu overloads.  Each returns [err, v]: the error and the value of   *)
(* the output parameter after the call (held = its value before).          *)
(***************************************************************************)
\* Tvm2NpuPadding with the 4-element case copied in source order
Tvm2NpuPaddingUnordered(padding, held, junk) ==
    LET a == AsArray(padding, Uninit4(junk))
        dim == a.v
    IN  IF HasError(a.err) THEN [err |-> a.err, v |-> held]
        ELSE IF Len(padding) = 1
             THEN [err |-> NoError, v |-> Padding(dim[1], dim[1], dim[1], dim[1])]
        ELSE IF Len(padding) = 2
             THEN [err |-> NoError, v |-> Padding(dim[1], dim[1], dim[2], dim[2])]
        ELSE IF Len(padding) = 4
             THEN [err |-> NoError, v |-> Padding(dim[1], dim[2], dim[3], dim[4])]
        ELSE [err |-> Error(MsgPaddingFlat), v |-> held]

\* Array<IndexExpr> -> sl::Padding
Tvm2NpuPadding(padding, held, junk) ==
    LET a == AsArray(padding, Uninit4(junk))
        dim == a.v
    IN  IF HasError(a.err) THEN [err |-> a.err, v |-> held]
        ELSE IF Len(padding) = 1
             THEN [err |-> NoError, v |-> Padding(dim[1], dim[1], dim[1], dim[1])]
        ELSE IF Len(padding) = 2
             THEN [err |-> NoError, v |-> Padding(dim[1], dim[1], dim[2], dim[2])]
        ELSE IF Len(padding) = 4
             THEN [err |-> NoError, v |-> Padding(dim[1], dim[3], dim[2], dim[4])]
        ELSE [err |-> Error(MsgPaddingFlat), v |-> held]

\* Array<Array<IndexExpr>> -> sl::Padding
Tvm2NpuNestedPadding(padding, held, junk) ==
    IF Len(padding) # 4 THEN [err |-> Error(MsgPaddingNested), v |-> held]
    ELSE LET reduced_padding ==
                 <<padding[2][1], padding[2][2], padding[3][1], padding[3][2]>>
             a == AsArray(reduced_padding, Uninit4(junk))
             dim == a.v
         IN  IF HasError(a.err) THEN [err |-> a.err, v |-> held]
             ELSE [err |-> NoError, v |-> Padding(dim[1], dim[2], dim[3], dim[4])]

\* Array<IndexExpr> -> sl::Stride
Tvm2NpuStride(strides, held, junk) ==
    IF Len(strides) # 2 THEN [err |-> Error(MsgStride), v |-> held]
    ELSE LET a == AsArray(strides, Uninit4(junk))
             dim == a.v
         IN  IF HasError(a.err) THEN [err |-> a.err, v |-> held]
             ELSE [err |-> NoError, v |-> Stride(dim[2], dim[1])]

\* std::string -> sl::DataFormat
Tvm2NpuFormat(dformat, held) ==
    IF dformat \in {"NCHW", "NHWC", "HWIO", "HWIM"}
    THEN [err |-> NoError, v |-> dformat]
    ELSE [err |-> Error(MsgFormat), v |-> held]

\* Array<IndexExpr> -> sl::TensorShape
Tvm2NpuShape(shape, held) ==
    LET a == AsArray(shape, held)
        npu_shape == a.v
    IN  IF npu_shape[1] # Small(1)
        THEN [err |-> Combine(a.err, Error(MsgBatch)), v |-> npu_shape]
        ELSE [err |-> a.err, v |-> npu_shape]

\* tvm::DataType -> sl::DataType
Tvm2NpuDataType(dtype, held) ==
    IF dtype.lanes = 1 /\ dtype.code = "uint" /\ dtype.bits = 8
    THEN [err |-> NoError, v |-> "UINT8_QUANTIZED"]
    ELSE IF dtype.lanes = 1 /\ dtype.code = "int" /\ dtype.bits = 32
    THEN [err |-> NoError, v |-> "INT32_QUANTIZED"]
    ELSE [err |-> Error(MsgDtype), v |-> held]

\* (zero_point, scale) -> sl::QuantizationInfo
QuantizationInfo(zero_point, scale) == [m_ZeroPoint |-> zero_point, m_Scale |-> scale]

Tvm2NpuQuant(zero_point, scale) ==
    [err |-> NoError, v |-> QuantizationInfo(zero_point, scale)]

\* sl::TensorInfo
TensorInfo(shape, dtype, format, qinfo) ==
    [m_Dimensions |-> shape, m_DataType |-> dtype, m_DataFormat |-> format,
     m_QuantizationInfo |-> qinfo]

(***************************************************************************)
(* Translators.  Each returns [err, v, trace, ub]: the accumulated error,  *)
(* the parameter structure, the errors returned by the extractors and      *)
(* converters it invoked (in call order), and the undefined operations it  *)
(* performed.                                                              *)
(***************************************************************************)
\* SplitParams(): input_info is a default sl::TensorInfo
DefaultFormat == "NHWC"

DefaultQuant == QuantizationInfo(0, 1)

\* input_tensor_shape[axis]: outside 0..3 the read is out of bounds
ShapeRead(shape4, axis, junk) == IF axis \in 0..3 THEN shape4[axis + 1] ELSE junk

\* extent / sections (extent below 2^31, sections > 0); by zero it is undefined
Quotient(extent, sections, junk) ==
    IF sections = 0 THEN junk ELSE Small(extent.lo \div sections)

Repeat(x, n) == [i \in 1..n |-> x]

\* the loop over indices: sizes pushed so far and last_index
RECURSIVE SplitIndices(_, _, _, _)
SplitIndices(indices, i, m_Sizes, last_index) ==
    IF i > Len(indices) THEN [m_Sizes |-> m_Sizes, last_index |-> last_index]
    ELSE SplitIndices(indices, i + 1,
                      Append(m_Sizes, ToUint32(Sub(indices[i], last_index))),
                      ToInt32(indices[i]))

Split(expr, junk) ==
    LET s1 == Tvm2NpuShape(expr.input.shape, Ones4)
        s2 == Tvm2NpuDataType(expr.input.dtype, JunkEnum(junk))
        input_tensor_shape == s1.v
        input_info == TensorInfo(input_tensor_shape, s2.v, DefaultFormat, DefaultQuant)
        ios == expr.indices_or_sections
        extent == ShapeRead(input_tensor_shape, expr.axis, junk)
        size == ToInt32(Quotient(extent, ios.value, junk))
        loop == SplitIndices(ios.indices, 1, <<>>, Small(0))
        axis_size == ToInt32(extent)
        m_Sizes == IF ios.int
                   THEN Repeat(ToUint32(size), ios.value)
                   ELSE Append(loop.m_Sizes, ToUint32(Sub(axis_size, loop.last_index)))
    IN  [err |-> Combine(s1.err, s2.err),
         v |-> [input_info |-> input_info,
                split_info |-> [m_Axis |-> ToUint32(Small(expr.axis)), m_Sizes |-> m_Sizes]],
         trace |-> <<s1.err, s2.err>>,
         ub |-> (IF expr.axis \in 0..3 THEN {} ELSE {"shape index out of bounds"})
                \cup (IF ios.int /\ ios.value = 0 THEN {"division by zero"} ELSE {})]

\* one iteration of the loop over input_scales
ConcatenateInput(expr, index, junk) ==
    LET input_dtype == expr.input_tensors[index]
        c1 == AsConstant(expr.input_scales[index], junk.lo)
        c2 == AsConstant(expr.input_zero_points[index], junk.lo)
        s1 == Tvm2NpuShape(input_dtype.shape, Ones4)
        s2 == Tvm2NpuDataType(input_dtype.dtype, JunkEnum(junk))
    IN  [err |-> Combine(Combine(c1.err, c2.err), Combine(s1.err, s2.err)),
         v |-> TensorInfo(s1.v, s2.v, "NHWC", QuantizationInfo(c2.v, c1.v)),
         trace |-> <<c1.err, c2.err, s1.err, s2.err>>]

\* ConcatenateLoop putting each descriptor in front of the earlier ones
RECURSIVE ConcatenateLoopPrepend(_, _, _, _)
ConcatenateLoopPrepend(expr, index, junk, acc) ==
    IF index > Len(expr.input_scales) THEN acc
    ELSE LET r == ConcatenateInput(expr, index, junk)
         IN  ConcatenateLoopPrepend(expr, index + 1, junk,
                                    [err |-> Combine(acc.err, r.err),
                                     input_infos |-> <<r.v>> \o acc.input_infos,
                                     trace |-> acc.trace \o r.trace])

RECURSIVE ConcatenateLoop(_, _, _, _)
ConcatenateLoop(expr, index, junk, acc) ==
    IF index > Len(expr.input_scales) THEN acc
    ELSE LET r == ConcatenateInput(expr, index, junk)
         IN  ConcatenateLoop(expr, index + 1, junk,
                             [err |-> Combine(acc.err, r.err),
                              input_infos |-> Append(acc.input_infos, r.v),
                              trace |-> acc.trace \o r.trace])

Concatenate(expr, junk) ==
    LET c1 == AsConstant(expr.output_s, junk.lo)
        c2 == AsConstant(expr.output_zp, junk.lo)
        loop == ConcatenateLoop(expr, 1, junk,
                                [err |-> Combine(c1.err, c2.err), input_infos |-> <<>>,
                                 trace |-> <<c1.err, c2.err>>])
    IN  [err |-> loop.err,
         v |-> [input_infos |-> loop.input_infos,
                concat_info |-> [m_Axis |-> ToUint32(Small(expr.axis)),
                                 m_OutputQuantizationInfo |-> QuantizationInfo(c2.v, c1.v)]],
         trace |-> loop.trace,
         ub |-> {}]

\* padding resolution of QnnConv2d: the conversions invoked, the error added
\* to err, and the resulting padding
ConvPadding(expr, junk) ==
    IF expr.pad
    THEN LET attr == Tvm2NpuPadding(expr.padding, ZeroPadding, junk)
             both == IF attr.v # ZeroPadding THEN Error(MsgBothPadding) ELSE NoError
             width == Tvm2NpuNestedPadding(expr.pad_width, attr.v, junk)
         IN  [err |-> Combine(both, width.err), v |-> width.v,
              trace |-> <<attr.err, width.err>>]
    ELSE LET attr == Tvm2NpuPadding(expr.padding, ZeroPadding, junk)
         IN  [err |-> attr.err, v |-> attr.v, trace |-> <<attr.err>>]

\* the dilation check of QnnConv2d
ConvDilation(expr) ==
    LET a == AsArray(expr.dilation, Ones4)
        dilation == a.v
    IN  [err |-> IF Len(expr.dilation) # 2 \/ dilation[1] # Small(1) \/ dilation[2] # Small(1)
                 THEN Error(MsgDilation) ELSE NoError,
         trace |-> <<a.err>>]

QnnConv2d(expr, junk) ==
    LET c1 == AsConstant(expr.input_zero_point, junk.lo)
        c2 == AsConstant(expr.kernel_zero_point, junk.lo)
        c3 == AsConstant(expr.output_zero_point, junk.lo)
        c4 == AsConstant(expr.input_scale, junk.lo)
        c5 == AsConstant(expr.kernel_scale, junk.lo)
        c6 == AsConstant(expr.output_scale, junk.lo)
        q1 == Tvm2NpuQuant(c1.v, c4.v)
        q2 == Tvm2NpuQuant(c2.v, c5.v)
        data_q_info == q1.v
        weights_q_info == q2.v
        q3 == Tvm2NpuQuant(0, data_q_info.m_Scale * weights_q_info.m_Scale)
        q4 == Tvm2NpuQuant(c3.v, c6.v)
        bias_q_info == q3.v
        output_q_info == q4.v
        p == ConvPadding(expr, junk)
        st == Tvm2NpuStride(expr.strides, DefaultStride, junk)
        d == ConvDilation(expr)
        conv_info == [m_Padding |-> p.v, m_Stride |-> st.v,
                      m_OutputQuantizationInfo |-> output_q_info]
        a1 == Tvm2NpuShape(expr.data.shape, Uninit4(junk))
        a2 == Tvm2NpuDataType(expr.data.dtype, JunkEnum(junk))
        activation_info == TensorInfo(a1.v, a2.v, "NHWC", data_q_info)
        is_depthwise == /\ expr.channels # <<>>
                        /\ expr.channels[1] = expr.groups
                        /\ expr.groups # 1
        w1 == Tvm2NpuShape(expr.weights.shape, Uninit4(junk))
        w2 == Tvm2NpuDataType(expr.weights.dtype, JunkEnum(junk))
        w3 == Tvm2NpuFormat(IF is_depthwise THEN "HWIM" ELSE "HWIO", JunkEnum(junk))
        weights_tensor_shape == w1.v
        weights_info == TensorInfo(weights_tensor_shape, w2.v, w3.v, weights_q_info)
        bias_info == TensorInfo(<<Small(1), Small(1), Small(1),
                                  IF is_depthwise THEN weights_tensor_shape[3]
                                                  ELSE weights_tensor_shape[4]>>,
                                "INT32_QUANTIZED", "NHWC", bias_q_info)
        errs == <<c1.err, c2.err, c3.err, c4.err, c5.err, c6.err,
                  q1.err, q2.err, q3.err, q4.err,
                  p.err, st.err, d.err, a1.err, a2.err, w2.err, w3.err>>
    IN  [err |-> Flatten(errs),
         v |-> [conv_info |-> conv_info, activation_info |-> activation_info,
                is_depthwise |-> is_depthwise, weights_info |-> weights_info,
                raw_weights |-> expr.weights.data, bias_info |-> bias_info,
                raw_bias |-> expr.bias_data],
         trace |-> <<c1.err, c2.err, c3.err, c4.err, c5.err, c6.err,
                     q1.err, q2.err, q3.err, q4.err>>
                   \o p.trace \o <<st.err>> \o d.trace
                   \o <<a1.err, a2.err, w1.err, w2.err, w3.err>>,
         ub |-> {}]

(***************************************************************************)
(* Capability-query bindings: *rv = !err && sl::Is...Supported(...).  The  *)
(* oracle is external; its verdict is an input.                            *)
(***************************************************************************)
\* ShortCircuit with the operands of && exchanged: the oracle is always asked
ShortCircuitEager(e, fn, args, verdict) ==
    [rv |-> verdict /\ ~HasError(e),
     oracle |-> <<[fn |-> fn, args |-> args, verdict |-> verdict]>>]

ShortCircuit(e, fn, args, verdict) ==
    IF HasError(e) THEN [rv |-> FALSE, oracle |-> <<>>]
    ELSE [rv |-> verdict, oracle |-> <<[fn |-> fn, args |-> args, verdict |-> verdict]>>]

SupportConv2d(call, junk, verdict) ==
    LET r == QnnConv2d(call, junk)
        params == r.v
        args == <<params.bias_info, params.weights_info, params.conv_info,
                  params.activation_info>>
    IN  [translated |-> r,
         reply |-> IF params.is_depthwise
                   THEN ShortCircuit(r.err, "IsDepthwiseConvolutionSupported", args, verdict)
                   ELSE ShortCircuit(r.err, "IsConvolutionSupported", args, verdict)]

SupportConcatenate(call, junk, verdict) ==
    LET r == Concatenate(call, junk)
        params == r.v
    IN  [translated |-> r,
         reply |-> ShortCircuit(r.err, "IsConcatenationSupported",
                                <<params.input_infos, params.concat_info>>, verdict)]

SupportSplit(call, junk, verdict) ==
    LET r == Split(call, junk)
        params == r.v
    IN  [translated |-> r,
         reply |-> ShortCircuit(r.err, "IsSplitSupported",
                                <<params.input_info, params.split_info>>, verdict)]

(***************************************************************************)
(* Inputs of the converters.                                               *)
(***************************************************************************)
\* IntImm values: negative, small, and on both sides of the uint32_t limit
IntVals == {Num(-1, 1), Small(-1), Small(0), Small(1), UINT32_MAX, Num(1, 0)}

\* Array<IndexExpr> of k elements
Arrays(k) == [1..k -> IntVals]

\* pad_width: (low, high) pairs, one per dimension
PadVals == {Small(0), Small(2), Num(1, 0)}

Pairs == [1..2 -> PadVals]

\* pairs of the dimensions the converter does not read (batch, channel, extra)
OuterPairs == {<<Small(0), Small(0)>>, <<Small(1), Small(1)>>}

NestedArrays ==
    {<<b, h, w>> : b \in OuterPairs, h \in Pairs, w \in Pairs}
    \cup {<<b, h, w, c>> : b \in OuterPairs, h \in Pairs, w \in Pairs, c \in OuterPairs}
    \cup {<<b, h, w, c, x>> : b \in OuterPairs, h \in Pairs, w \in Pairs,
                              c \in OuterPairs, x \in OuterPairs}

DataTypes ==
    {[code |-> "uint", bits |-> 8, lanes |-> 1], [code |-> "int", bits |-> 32, lanes |-> 1],
     [code |-> "int", bits |-> 8, lanes |-> 1], [code |-> "uint", bits |-> 8, lanes |-> 4],
     [code |-> "float", bits |-> 32, lanes |-> 1]}

Formats == {"NCHW", "NHWC", "HWIO", "HWIM", "OIHW"}

(***************************************************************************)
(* State.  A call is made (the entry point and its argument are fixed),    *)
(* then the entry point runs to completion, then the caller drops the      *)
(* result.                                                                 *)
(***************************************************************************)
Init ==
    /\ op = "none"
    /\ arg = <<>>
    /\ status = "idle"
    /\ err = NoError
    /\ out = <<>>
    /\ trace = <<>>
    /\ ub = {}
    /\ oracle = <<>>
    /\ rv = FALSE

\* the caller invokes entry point name on input
Invoke(name, input) ==
    /\ op' = name
    /\ arg' = input
    /\ status' = "called"
    /\ UNCHANGED <<err, out, trace, ub, oracle, rv>>

\* storage the caller may hand over as the 4-slot output array
HeldArrays == {Ones4} \cup {Uninit4(junk) : junk \in Junk}

\* storage the caller may hand over as the output padding
HeldPaddings == {ZeroPadding} \cup {Padding(junk, junk, junk, junk) : junk \in Junk}

HeldEnums == {JunkEnum(junk) : junk \in Junk}

InvokeAsArray ==
    /\ status = "idle"
    /\ \E k \in 0..MaxLen : \E arr \in Arrays(k), held \in HeldArrays :
           Invoke("AsArray", [arr |-> arr, held |-> held])

InvokePadding ==
    /\ status = "idle"
    /\ \E k \in 0..MaxLen : \E padding \in Arrays(k), held \in HeldPaddings :
           Invoke("Padding", [padding |-> padding, held |-> held])

InvokeNestedPadding ==
    /\ status = "idle"
    /\ \E padding \in NestedArrays, held \in HeldPaddings :
           Invoke("NestedPadding", [padding |-> padding, held |-> held])

InvokeStride ==
    /\ status = "idle"
    /\ \E k \in 0..MaxLen : \E strides \in Arrays(k) :
           Invoke("Stride", [strides |-> strides, held |-> DefaultStride])

InvokeShape ==
    /\ status = "idle"
    /\ \E k \in 0..MaxLen : \E shape \in Arrays(k), held \in HeldArrays :
           Invoke("Shape", [shape |-> shape, held |-> held])

InvokeFormat ==
    /\ status = "idle"
    /\ \E dformat \in Formats, held \in HeldEnums :
           Invoke("Format", [dformat |-> dformat, held |-> held])

InvokeDataType ==
    /\ status = "idle"
    /\ \E dtype \in DataTypes, held \in HeldEnums :
           Invoke("DataType", [dtype |-> dtype, held |-> held])

\* a converter or extractor called on its own returns r = [err, v]
Returned(r) ==
    /\ status' = "returned"
    /\ err' = r.err
    /\ out' = r.v
    /\ UNCHANGED <<op, arg, trace, ub, oracle, rv>>

RunAsArray ==
    /\ status = "called" /\ op = "AsArray"
    /\ Returned(AsArray(arg.arr, arg.held))

RunPadding ==
    /\ status = "called" /\ op = "Padding"
    /\ \E junk \in Junk : Returned(Tvm2NpuPadding(arg.padding, arg.held, junk))

RunNestedPadding ==
    /\ status = "called" /\ op = "NestedPadding"
    /\ \E junk \in Junk : Returned(Tvm2NpuNestedPadding(arg.padding, arg.held, junk))

RunStride ==
    /\ status = "called" /\ op = "Stride"
    /\ \E junk \in Junk : Returned(Tvm2NpuStride(arg.strides, arg.held, junk))

RunShape ==
    /\ status = "called" /\ op = "Shape"
    /\ Returned(Tvm2NpuShape(arg.shape, arg.held))

RunFormat ==
    /\ status = "called" /\ op = "Format"
    /\ Returned(Tvm2NpuFormat(arg.dformat, arg.held))

RunDataType ==
    /\ status = "called" /\ op = "DataType"
    /\ Returned(Tvm2NpuDataType(arg.dtype, arg.held))

\* the caller drops the result; the next call starts from fresh objects
Done ==
    /\ status \in {"returned", "crashed"}
    /\ op' = "none"
    /\ arg' = <<>>
    /\ status' = "idle"
    /\ err' = NoError
    /\ out' = <<>>
    /\ trace' = <<>>
    /\ ub' = {}
    /\ oracle' = <<>>
    /\ rv' = FALSE


(***************************************************************************)
(* Inputs of the bindings: the matched Relay calls.                        *)
(***************************************************************************)
Const(n) == [const |-> TRUE, val |-> n]

NonConstant == [const |-> FALSE]

Uint8 == [code |-> "uint", bits |-> 8, lanes |-> 1]

Float32 == [code |-> "float", bits |-> 32, lanes |-> 1]

\* which of the six quantization operands are not constants
ConstPatterns == {{}} \cup {{k} : k \in {1, 2, 5, 6}}

Operand(pattern, k, n) == IF k \in pattern THEN NonConstant ELSE Const(n)

ConvPaddings ==
    {<<Small(0), Small(0)>>, <<Small(1), Small(2)>>, <<Small(1), Small(1), Small(1)>>,
     <<Num(1, 0)>>, <<Small(0), Small(1), Small(2), Small(3)>>}

ConvPadWidths ==
    {<<<<Small(0), Small(0)>>, <<Small(1), Small(2)>>, <<Small(3), Small(4)>>,
       <<Small(0), Small(0)>>>>,
     <<<<Small(1), Small(2)>>, <<Small(3), Small(4)>>, <<Small(0), Small(0)>>>>}

ConvStrides == {<<Small(1), Small(2)>>, <<Small(1)>>}

ConvDilations ==
    {<<Small(1), Small(1)>>, <<Small(2), Small(1)>>, <<Small(1)>>,
     <<Num(1, 0), Small(1)>>, <<Small(1), Num(-1, 1)>>}

ConvShape == <<Small(1), Small(8), Small(8), Small(4)>>

ConvKernel == <<Small(3), Small(3), Small(4), Small(8)>>

\* (data, weights): at most one of the two tensors is ill-formed
ConvTensors ==
    {<<[shape |-> ConvShape, dtype |-> Uint8],
       [shape |-> ConvKernel, dtype |-> Uint8, data |-> "weights"]>>,
     <<[shape |-> <<Small(2)>> \o Tail(ConvShape), dtype |-> Uint8],
       [shape |-> ConvKernel, dtype |-> Uint8, data |-> "weights"]>>,
     <<[shape |-> ConvShape, dtype |-> Float32],
       [shape |-> ConvKernel, dtype |-> Uint8, data |-> "weights"]>>,
     <<[shape |-> ConvShape, dtype |-> Uint8],
       [shape |-> ConvKernel \o <<Small(1)>>, dtype |-> Uint8, data |-> "weights"]>>,
     <<[shape |-> ConvShape, dtype |-> Uint8],
       [shape |-> ConvKernel, dtype |-> Float32, data |-> "weights"]>>}

\* (channels, groups); channels is <<>> when the attribute is not defined
ConvGroups == {<<<<>>, 1>>, <<<<8>>, 1>>, <<<<4>>, 4>>}

ConvCalls ==
    {[pad |-> pd, pad_width |-> pw, padding |-> pa, strides |-> sd, dilation |-> dl,
      channels |-> cg[1], groups |-> cg[2], data |-> tn[1], weights |-> tn[2],
      bias_data |-> "bias",
      input_zero_point |-> Operand(cp, 1, 10), kernel_zero_point |-> Operand(cp, 2, 0),
      output_zero_point |-> Operand(cp, 3, 5), input_scale |-> Operand(cp, 4, 5),
      kernel_scale |-> Operand(cp, 5, 1), output_scale |-> Operand(cp, 6, 2)] :
        pd \in BOOLEAN, pw \in ConvPadWidths, pa \in ConvPaddings, sd \in ConvStrides,
        dl \in ConvDilations, cg \in ConvGroups, tn \in ConvTensors,
        cp \in ConstPatterns}

ConcatTensors ==
    {[shape |-> <<Small(1), Small(4), Small(4), Small(2)>>, dtype |-> Uint8],
     [shape |-> <<Small(1), Small(4), Small(4), Small(3)>>, dtype |-> Uint8],
     [shape |-> <<Small(2), Small(1), Small(4), Small(4), Small(2)>>, dtype |-> Float32]}

ConcatScales == {Const(3), Const(4), NonConstant}

ConcatZeroPoints == {Const(1), NonConstant}

\* qnn.concatenate of n inputs: the three tuples have one entry per input
ConcatCalls(n) ==
    {[axis |-> ax, output_s |-> os, output_zp |-> oz, input_scales |-> sc,
      input_zero_points |-> zp, input_tensors |-> ts] :
        ax \in {0, 3}, os \in {Const(2), NonConstant}, oz \in {Const(0), NonConstant},
        sc \in [1..n -> ConcatScales], zp \in [1..n -> ConcatZeroPoints],
        ts \in [1..n -> ConcatTensors]}

SplitExtents == {1, 4, 6}

SplitShapes ==
    {<<Small(b), Small(h), Small(w), Small(c)>> :
        b \in {1, 2}, h \in SplitExtents, w \in SplitExtents, c \in SplitExtents}
    \cup {<<Small(1), Small(6)>>, <<Small(1), Small(1), Small(6), Small(6), Small(6)>>}

SplitIndexVals == {Small(j) : j \in 1..MaxSections}

SplitSpecs ==
    {[int |-> TRUE, value |-> n] : n \in 0..MaxSections}
    \cup {[int |-> FALSE, indices |-> ix] :
            ix \in {<<>>} \cup [1..1 -> SplitIndexVals] \cup [1..2 -> SplitIndexVals]}

SplitCalls ==
    {[input |-> [shape |-> sh, dtype |-> t], axis |-> ax, indices_or_sections |-> ios] :
        sh \in SplitShapes, t \in {Uint8, Float32}, ax \in -1..4, ios \in SplitSpecs}

(***************************************************************************)
(* The bindings as steps.  A call that performed an undefined operation    *)
(* either goes on with the value the storage held or ends the process      *)
(* inside the translator: nothing is returned and the oracle is not asked. *)
(***************************************************************************)
InvokeSupportConv2d ==
    /\ status = "idle"
    /\ \E call \in ConvCalls : Invoke("conv2d", call)

InvokeSupportConcatenate ==
    /\ status = "idle"
    /\ \E n \in 1..MaxInputs : \E call \in ConcatCalls(n) : Invoke("concatenate", call)

InvokeSupportSplit ==
    /\ status = "idle"
    /\ \E call \in SplitCalls : Invoke("split", call)

Reply(b) ==
    /\ trace' = b.translated.trace
    /\ ub' = b.translated.ub
    /\ err' = b.translated.err
    /\ out' = b.translated.v
    /\ \/ /\ status' = "returned"
          /\ oracle' = b.reply.oracle
          /\ rv' = b.reply.rv
       \/ /\ b.translated.ub # {}
          /\ status' = "crashed"
          /\ oracle' = <<>>
          /\ rv' = FALSE
    /\ UNCHANGED <<op, arg>>

RunSupportConv2d ==
    /\ status = "called" /\ op = "conv2d"
    /\ \E junk \in Junk, verdict \in BOOLEAN : Reply(SupportConv2d(arg, junk, verdict))

RunSupportConcatenate ==
    /\ status = "called" /\ op = "concatenate"
    /\ \E junk \in Junk, verdict \in BOOLEAN : Reply(SupportConcatenate(arg, junk, verdict))

RunSupportSplit ==
    /\ status = "called" /\ op = "split"
    /\ \E junk \in Junk, verdict \in BOOLEAN : Reply(SupportSplit(arg, junk, verdict))

Next ==
    \/ InvokeSupportConv2d
    \/ InvokeSupportConcatenate
    \/ InvokeSupportSplit
    \/ RunSupportConv2d
    \/ RunSupportConcatenate
    \/ RunSupportSplit
    \/ Done

Spec == Init /\ [][Next]_vars

NextConvert ==
    \/ InvokeAsArray
    \/ InvokePadding
    \/ InvokeNestedPadding
    \/ InvokeStride
    \/ InvokeShape
    \/ InvokeFormat
    \/ InvokeDataType
    \/ RunAsArray
    \/ RunPadding
    \/ RunNestedPadding
    \/ RunStride
    \/ RunShape
    \/ RunFormat
    \/ RunDataType
    \/ Done

SpecConvert == Init /\ [][NextConvert]_vars


(***************************************************************************)
(* Properties.                                                             *)
(***************************************************************************)
Bindings == {"conv2d", "concatenate", "split"}

\* a is representable in uint32_t
Representable(a) == ~Gt(Small(0), a) /\ ~Gt(a, UINT32_MAX)

AllRepresentable(arr) == \A i \in 1..Len(arr) : Representable(arr[i])

NonNegative(arr) == \A i \in 1..Len(arr) : ~Gt(Small(0), arr[i])

NonZero(arr) == \E i \in 1..Len(arr) : arr[i] # Small(0)

RECURSIVE SumOf(_)
SumOf(sizes) == IF sizes = <<>> THEN Small(0) ELSE Add(Head(sizes), SumOf(Tail(sizes)))

\* the oracle call each binding makes with the descriptors of params
ExpectedOracleCall ==
    CASE op = "conv2d" ->
           [fn |-> IF out.is_depthwise THEN "IsDepthwiseConvolutionSupported"
                                       ELSE "IsConvolutionSupported",
            args |-> <<out.bias_info, out.weights_info, out.conv_info, out.activation_info>>]
      [] op = "concatenate" ->
           [fn |-> "IsConcatenationSupported", args |-> <<out.input_infos, out.concat_info>>]
      [] op = "split" ->
           [fn |-> "IsSplitSupported", args |-> <<out.input_info, out.split_info>>]

\* C1: a binding whose translator returned a non-empty error returns false
\* without invoking the oracle; with an empty error it invokes the oracle
\* exactly once on the translator's descriptors and returns its verdict.
C1_BindingShortCircuits ==
    (op \in Bindings) =>
        /\ status = "crashed" => oracle = <<>>
        /\ status = "returned" =>
              IF err # NoError
              THEN rv = FALSE /\ oracle = <<>>
              ELSE /\ Len(oracle) = 1
                   /\ oracle[1].fn = ExpectedOracleCall.fn
                   /\ oracle[1].args = ExpectedOracleCall.args
                   /\ rv = oracle[1].verdict

C1_Witness ==
    /\ op = "conv2d"
    /\ status = "returned"
    /\ err # NoError
    /\ arg.output_scale = NonConstant
    /\ rv = FALSE
    /\ oracle = <<>>

\* number of extractor / converter calls each translator makes
ExpectedSubSteps ==
    CASE op = "conv2d" -> IF arg.pad THEN 19 ELSE 18
      [] op = "concatenate" -> 2 + 4 * Len(arg.input_tensors)
      [] op = "split" -> 2

\* C2: every error returned by an extractor or converter that a translator
\* invoked is part of the error the translator returns, and every sub-step
\* is run.
C2_ErrorsAccumulated ==
    (op \in Bindings /\ status = "returned") =>
        /\ Len(trace) = ExpectedSubSteps
        /\ \A i \in 1..Len(trace) : \A j \in 1..Len(trace[i]) : Contains(err, trace[i][j])
        /\ Len(err) >= Len(Flatten(trace))

\* C3: a pad operator together with a non-zero padding attribute gives the
\* "both op and attr padding exist" error and an unsupported verdict without
\* an oracle call; otherwise the descriptor's padding is converted from the
\* source that is present.
C3_ConvPaddingResolution ==
    (op = "conv2d" /\ status = "returned") =>
        IF arg.pad /\ NonZero(arg.padding)
        THEN Contains(err, MsgBothPadding) /\ rv = FALSE /\ oracle = <<>>
        ELSE IF arg.pad
             THEN Len(arg.pad_width) = 4 =>
                      out.conv_info.m_Padding =
                          Padding(arg.pad_width[2][1], arg.pad_width[2][2],
                                  arg.pad_width[3][1], arg.pad_width[3][2])
             ELSE Len(arg.padding) = 2 =>
                      out.conv_info.m_Padding =
                          Padding(arg.padding[1], arg.padding[1],
                                  arg.padding[2], arg.padding[2])

\* C4: every dilation attribute other than [1, 1] is rejected with the
\* "dilation must = [1, 1]" message.
C4_DilationRejected ==
    (op = "conv2d" /\ status = "returned" /\ arg.dilation # <<Small(1), Small(1)>>) =>
        Contains(err, MsgDilation)

C6_ShapeBatchAnyArray ==
    (op = "Shape" /\ status = "returned" /\ NonNegative(arg.shape) /\ Len(arg.shape) >= 1
                  /\ arg.shape[1] # Small(1)) =>
        /\ Contains(err, MsgBatch)
        /\ \A i \in 2..4 : i <= Len(arg.shape) => out[i] = arg.shape[i]

\* cut indices that are ascending and lie within the extent
Ascending(indices, extent) ==
    /\ \A i \in 1..Len(indices) : Gt(extent, indices[i])
    /\ \A i \in 1..(Len(indices) - 1) : Gt(indices[i + 1], indices[i])

\* C7: the segment sizes Split produced sum to the input tensor's extent on
\* the split axis, for a section count and for ascending cut indices within
\* the extent.
C7_SplitSizesSum ==
    (/\ op = "split" /\ status = "returned" /\ ub = {}
     /\ arg.axis \in 0..(Len(arg.input.shape) - 1)
     /\ Len(arg.input.shape) <= 4
     /\ ~arg.indices_or_sections.int =>
            Ascending(arg.indices_or_sections.indices, arg.input.shape[arg.axis + 1])) =>
        SumOf(out.split_info.m_Sizes) = arg.input.shape[arg.axis + 1]

\* the 4-slot shape of a valid declared shape: missing slots stay 1
Padded(shape) == [i \in 1..4 |-> IF i <= Len(shape) THEN shape[i] ELSE Small(1)]

C9_AsArrayChecksRange ==
    (op = "AsArray" /\ status = "returned" /\ Len(arg.arr) <= 4) =>
        /\ ~AllRepresentable(arg.arr) => Contains(err, MsgAxisSize)
        /\ err = NoError => \A i \in 1..Len(arg.arr) : out[i] = arg.arr[i]

\* C10: Split reads the shape only at an axis within 0..3 and never divides
\* by a zero section count.
C10_SplitDefined ==
    (op = "split") => (ub = {} /\ status # "crashed")

====
